---- MODULE Spec2Model ----
(***************************************************************************)
(* The events service of src/new.js: Joi validation middleware, the four   *)
(* route handlers, and the mongoose collection they call.                  *)
(*                                                                         *)
(* A handler runs in two steps, split at its single `await`: the step that *)
(* receives the request (validation middleware, then the synchronous part  *)
(* of the handler up to the mongoose call) and the step in which the       *)
(* datastore executes the call atomically and the handler's continuation   *)
(* sends the response.  Up to MaxInFlight calls are awaited at once, and   *)
(* they settle in any order.                                               *)
(*                                                                         *)
(* JSON bodies and query strings are functions from keys to values; a      *)
(* missing key is a key outside the DOMAIN.  ObjectIds are the naturals    *)
(* 1, 2, ... in generation order.  Dates are held as days since the epoch. *)
(***************************************************************************)
EXTENDS Integers, Sequences, FiniteSets, Bags, TLC

\* Bounds of the model.
MaxEvents   == 2   \* ObjectIds generated (documents constructed)
MaxInFlight == 1   \* datastore calls awaited at the same time
MaxVersion  == 1   \* PUT requests carry __v in 0..MaxVersion

\* Program constants.
DescriptionMax == 500
LocationMin    == 3
LocationMax    == 50

VARIABLES
    store,      \* the events collection: ObjectId -> stored document
    nextId,     \* the next ObjectId `new Event` generates
    pending,    \* bag of mongoose calls awaited by handlers
    res,        \* the response sent by the latest step (NoRes if none)
    created,    \* observer: the _id of every event a 201 has returned
    won         \* observer: the <<id, __v>> of every PUT answered 200

vars == <<store, nextId, pending, res, created, won>>

Has(r, k) == k \in DOMAIN r

Without(r, k) == [x \in DOMAIN r \ {k} |-> r[x]]

Range(f) == {f[x] : x \in DOMAIN f}

Statuses == {"active", "cancelled", "done"}

-----------------------------------------------------------------------------
\* Date handling.  Three parsers read a date string, and they differ.

IsoDates == {"2024-12-12", "2024-12-12T00:00:00.000Z", "2025-01-01"}

MsDates == {"1733961600000"}

\* Milliseconds / ISO text to days since the epoch.
Instant(s) ==
    CASE s = "2024-12-12"               -> 20069
      [] s = "2024-12-12T00:00:00.000Z" -> 20069
      [] s = "1733961600000"            -> 20069
      [] s = "2025-01-01"               -> 20089
      [] OTHER                          -> 0

IsNaN(d) == d = 0

\* Joi.date(): a numeric string is read as milliseconds, anything else by Date.
JoiDateOk(s) == s \in IsoDates \cup MsDates

\* `new Date(string)`: a string of digits is not a date string: Invalid Date.
NewDate(s) == IF s \in IsoDates THEN Instant(s) ELSE 0

\* mongoose's Date cast of a document field: digits are milliseconds.
CastDate(s) == IF s \in IsoDates \cup MsDates THEN Instant(s) ELSE 0

-----------------------------------------------------------------------------
\* Joi schemas.  Each yields the list of detail messages (abortEarly: false),
\* in the order of the schema's keys, unknown keys last.

\* A title schema without the "string.empty" rule.
TitleErrorsMissingOnly(b) ==
    IF ~Has(b, "title") THEN <<"\"title\" is required">> ELSE <<>>

TitleErrors(b) ==
    IF ~Has(b, "title") THEN <<"\"title\" is required">>
    ELSE IF b.title = "" THEN <<"Title is required">>
    ELSE <<>>

DescriptionErrors(b) ==
    IF ~Has(b, "description") THEN <<>>
    ELSE IF b.description = "" THEN <<"\"description\" is not allowed to be empty">>
    ELSE IF Len(b.description) > DescriptionMax
         THEN <<"Description cannot exceed 500 characters">>
    ELSE <<>>

LocationErrors(b) ==
    IF ~Has(b, "location") THEN <<"\"location\" is required">>
    ELSE IF b.location = "" THEN <<"Location is required">>
    ELSE <<>>

DateErrors(b) ==
    IF ~Has(b, "date") THEN <<"\"date\" is required">>
    ELSE IF ~JoiDateOk(b.date) THEN <<"Date is invalid or missing">>
    ELSE <<>>

StatusErrors(b) ==
    IF Has(b, "status") /\ b.status \notin Statuses
    THEN <<"\"status\" must be one of [active, cancelled, done]">>
    ELSE <<>>

\* Joi.number().required(); the bodies sent carry a number or no __v.
VersionErrors(b) ==
    IF ~Has(b, "__v") THEN <<"\"__v\" is required">> ELSE <<>>

KeyOrder == <<"title", "description", "location", "date", "status", "__v", "_id">>

NotAllowed(k) == "\"" \o k \o "\" is not allowed"

RECURSIVE UnknownFrom(_, _, _)
UnknownFrom(b, allowed, i) ==
    IF i > Len(KeyOrder) THEN <<>>
    ELSE (IF Has(b, KeyOrder[i]) /\ KeyOrder[i] \notin allowed
          THEN <<NotAllowed(KeyOrder[i])>> ELSE <<>>)
         \o UnknownFrom(b, allowed, i + 1)

\* A schema that lets unknown keys through.
UnknownErrorsAllowed(b, allowed) == <<>>

\* Joi.object() does not allow keys the schema does not name.
UnknownErrors(b, allowed) == UnknownFrom(b, allowed, 1)

EventKeys == {"title", "description", "location", "date", "status"}

eventValidationSchema(b) ==
    TitleErrors(b) \o DescriptionErrors(b) \o LocationErrors(b)
        \o DateErrors(b) \o StatusErrors(b) \o UnknownErrors(b, EventKeys)

updateEventValidationSchema(b) ==
    TitleErrors(b) \o DescriptionErrors(b) \o LocationErrors(b)
        \o DateErrors(b) \o StatusErrors(b) \o VersionErrors(b)
        \o UnknownErrors(b, EventKeys \cup {"__v"})

QueryKeys == {"location", "date", "status"}

QueryLocationErrors(q) ==
    IF ~Has(q, "location") THEN <<>>
    ELSE IF q.location = "" THEN <<"\"location\" is not allowed to be empty">>
    ELSE IF Len(q.location) < LocationMin
         THEN <<"\"location\" length must be at least 3 characters long">>
    ELSE IF Len(q.location) > LocationMax
         THEN <<"\"location\" length must be less than or equal to 50 characters long">>
    ELSE <<>>

QueryDateErrors(q) ==
    IF Has(q, "date") /\ ~JoiDateOk(q.date)
    THEN <<"\"date\" must be a valid date">> ELSE <<>>

queryValidationSchema(q) ==
    QueryLocationErrors(q) \o QueryDateErrors(q) \o StatusErrors(q)
        \o UnknownErrors(q, QueryKeys)
        \o (IF DOMAIN q \cap QueryKeys = {}
            THEN <<"\"value\" must contain at least one of [location, date, status]">>
            ELSE <<>>)

\* validateRequest / validateQuery: the 400 response for a non-empty error list.
ValidationError(req, errors) ==
    [req |-> req, status |-> 400,
     body |-> [message |-> "Validation error", details |-> errors]]

-----------------------------------------------------------------------------
\* The mongoose model.

\* `new Event(req.body)`: the schema's paths are cast, `status` takes its
\* default, and the document gets a generated _id unless the body brings one.
NewEvent(b, id) ==
    [k \in (DOMAIN b \cap EventKeys) \cup {"_id", "status"} |->
        IF k = "_id" THEN (IF Has(b, "_id") THEN b._id ELSE id)
        ELSE IF k = "date" THEN CastDate(b.date)
        ELSE IF k = "status" /\ ~Has(b, "status") THEN "active"
        ELSE b[k]]

\* The schema's validators, run by save(): required, enum, maxLength.
EventSchema(doc) ==
    /\ Has(doc, "title") /\ doc.title # ""
    /\ Has(doc, "location") /\ doc.location # ""
    /\ Has(doc, "date") /\ ~IsNaN(doc.date)
    /\ doc.status \in Statuses
    /\ Has(doc, "description") => Len(doc.description) <= DescriptionMax

\* The document an insert writes: a new document's version key is 0.
Inserted(doc) ==
    [k \in DOMAIN doc \cup {"__v"} |-> IF k = "__v" THEN 0 ELSE doc[k]]

\* `__v: { select: false }`: query results leave the version out.
Selected(doc) == Without(doc, "__v")

\* An update found by id alone.
UpdateFilterById(id, b) == [_id |-> id]

\* The condition of the update: { _id: req.params.id, __v: req.body.__v }.
UpdateFilter(id, b) == [_id |-> id, __v |-> b.__v]

Matches(doc, filter) == \A k \in DOMAIN filter : Has(doc, k) /\ doc[k] = filter[k]

\* The update document is req.body itself: every key of it is $set, cast by
\* the schema.  It holds __v, the version the request expected.
CastUpdate(b) ==
    [k \in DOMAIN b \cap (EventKeys \cup {"__v"}) |->
        IF k = "date" THEN CastDate(b.date) ELSE b[k]]

Updated(doc, update) ==
    [k \in DOMAIN doc \cup DOMAIN update |->
        IF Has(update, k) THEN update[k] ELSE doc[k]]

\* `if (!event)`: findOneAndUpdate resolved with null.
NoEvent(found) == found = {}

\* A delete handler that never takes the 404 branch.
NoDeletedEventNever(found) == FALSE

\* `if (!deletedEvent)`: findByIdAndDelete resolved with null.
NoDeletedEvent(found) == found = {}

\* A filter that leaves the status out.
BuildQueryNoStatus(q) ==
    [k \in {x \in DOMAIN q \cap {"location", "date"} : q[x] # ""} |->
        IF k = "date" THEN NewDate(q.date) ELSE q[k]]

\* The filter GET /events builds from req.query.
BuildQuery(q) ==
    [k \in {x \in DOMAIN q \cap QueryKeys : q[x] # ""} |->
        IF k = "date" THEN NewDate(q.date) ELSE q[k]]

\* find(query) casts the filter first: an Invalid Date does not cast.
FilterCasts(filter) == Has(filter, "date") => ~IsNaN(filter.date)

Find(filter) == {Selected(d) : d \in {x \in Range(store) : Matches(x, filter)}}

-----------------------------------------------------------------------------
\* Requests, calls and responses.

NoReq == [method |-> "none"]

NoRes == [req |-> NoReq, status |-> 0]

Reply(req, status, body) == [req |-> req, status |-> status, body |-> body]

Message(m) == [message |-> m]

\* The catch block of a handler: the error is logged, the client gets 500.
Caught(req, err, m) ==
    [req |-> req, status |-> 500, body |-> Message(m), logged |-> err]

\* Whether a mongoose call rejects because the datastore cannot be reached.
\* (A call also rejects when its own arguments do not cast or validate.)
Rejections == {"none", "MongoNetworkError"}

Await(call) ==
    /\ BagCardinality(pending) < MaxInFlight
    /\ pending' = pending (+) SetToBag({call})
    /\ res' = NoRes

Resolve(call) == pending' = pending (-) SetToBag({call})

-----------------------------------------------------------------------------
\* Inputs.  String fields are sent as JSON strings, __v as a number.

EmptyQuery == [k \in {} |-> ""]

PostBodies ==
    { [title |-> "Event 1", location |-> "Hall", date |-> "2024-12-12"],
      [description |-> "test description", location |-> "test location",
       date |-> "2024-12-12"],
      [title |-> "Event 1", location |-> "Hall", date |-> "2024-12-12",
       _id |-> 1] }

\* The bodies of valid updates, one per expected version.
Patches ==
    { [title |-> "Updated", description |-> "test description",
       location |-> "ab", date |-> "1733961600000", status |-> "done",
       __v |-> v] : v \in 0..MaxVersion }

\* Bodies the update schema rejects.
BadPatches ==
    { [title |-> "Updated Event", __v |-> 0],
      [title |-> "", location |-> "Hall", date |-> "2024-12-12", __v |-> 0] }

Queries ==
    { EmptyQuery,
      [location |-> "ab"],
      [location |-> "Hall", date |-> "2024-12-12T00:00:00.000Z"],
      [status |-> "done"],
      [date |-> "1733961600000"] }

\* The ids PUT and DELETE name: well-formed ObjectIds, generated already or
\* not yet.
Ids == 1..MaxEvents

-----------------------------------------------------------------------------
Init ==
    /\ store = [i \in {} |-> NoReq]
    /\ nextId = 1
    /\ pending = EmptyBag
    /\ res = NoRes
    /\ created = {}
    /\ won = {}

\* POST /events up to `await event.save()`.
PostEvents(b) ==
    LET req    == [method |-> "POST", body |-> b]
        errors == eventValidationSchema(b)
    IN  /\ IF errors # <<>>
           THEN /\ res' = ValidationError(req, errors)
                /\ UNCHANGED <<nextId, pending>>
           ELSE /\ nextId <= MaxEvents
                /\ Await([call |-> "save", req |-> req, doc |-> NewEvent(b, nextId)])
                /\ nextId' = nextId + 1
        /\ UNCHANGED <<store, created, won>>

\* save() settles; the handler answers 201 or 500.
Save(c, rejection) ==
    /\ c.call = "save"
    /\ Resolve(c)
    /\ IF rejection # "none"
       THEN /\ res' = Caught(c.req, rejection, "Error saving event")
            /\ UNCHANGED <<store, created>>
       ELSE IF ~EventSchema(c.doc)
       THEN /\ res' = Caught(c.req, "ValidationError", "Error saving event")
            /\ UNCHANGED <<store, created>>
       ELSE IF c.doc._id \in DOMAIN store
       THEN /\ res' = Caught(c.req, "MongoServerError", "Error saving event")
            /\ UNCHANGED <<store, created>>
       ELSE /\ store' = store @@ (c.doc._id :> Inserted(c.doc))
            /\ res' = Reply(c.req, 201, Inserted(c.doc))
            /\ created' = created \cup {c.doc._id}
    /\ UNCHANGED <<nextId, won>>

\* GET /events up to `await Event.find(query)`.
GetEvents(q) ==
    LET req    == [method |-> "GET", query |-> q]
        errors == queryValidationSchema(q)
    IN  /\ IF errors # <<>>
           THEN /\ res' = ValidationError(req, errors)
                /\ UNCHANGED pending
           ELSE Await([call |-> "find", req |-> req, filter |-> BuildQuery(q)])
        /\ UNCHANGED <<store, nextId, created, won>>

\* find() settles; the handler answers 200 with the array, or 500.
FindSettles(c, rejection) ==
    /\ c.call = "find"
    /\ Resolve(c)
    /\ IF rejection # "none"
       THEN res' = Caught(c.req, rejection, "Error fetching events")
       ELSE IF ~FilterCasts(c.filter)
       THEN res' = Caught(c.req, "CastError", "Error fetching events")
       ELSE res' = Reply(c.req, 200, Find(c.filter))
    /\ UNCHANGED <<store, nextId, created, won>>

\* PUT /events/:id up to `await Event.findOneAndUpdate(...)`.
PutEvent(id, b) ==
    LET req    == [method |-> "PUT", id |-> id, body |-> b]
        errors == updateEventValidationSchema(b)
    IN  /\ IF errors # <<>>
           THEN /\ res' = ValidationError(req, errors)
                /\ UNCHANGED pending
           ELSE Await([call |-> "findOneAndUpdate", req |-> req,
                       filter |-> UpdateFilter(id, b), update |-> CastUpdate(b)])
        /\ UNCHANGED <<store, nextId, created, won>>

\* findOneAndUpdate() settles: one atomic find-and-modify in the datastore;
\* the handler answers 200 with the new document, 409 on null, or 500.
FindOneAndUpdate(c, rejection) ==
    /\ c.call = "findOneAndUpdate"
    /\ Resolve(c)
    /\ LET found == {i \in DOMAIN store : Matches(store[i], c.filter)}
       IN  IF rejection # "none"
           THEN /\ res' = Caught(c.req, rejection, "Error updating event")
                /\ UNCHANGED <<store, won>>
           ELSE IF NoEvent(found)
           THEN /\ res' = Reply(c.req, 409,
                    Message("Event has been updated by another user. Please refresh."))
                /\ UNCHANGED <<store, won>>
           ELSE LET i == CHOOSE i \in found : TRUE
                    d == Updated(store[i], c.update)
                IN  /\ store' = [store EXCEPT ![i] = d]
                    /\ res' = Reply(c.req, 200, Selected(d))
                    /\ won' = won \cup {<<c.req.id, c.req.body.__v>>}
    /\ UNCHANGED <<nextId, created>>

\* DELETE /events/:id up to `await Event.findByIdAndDelete(id)`.
DeleteEvent(id) ==
    /\ Await([call |-> "findByIdAndDelete", req |-> [method |-> "DELETE", id |-> id],
              id |-> id])
    /\ UNCHANGED <<store, nextId, created, won>>

\* findByIdAndDelete() settles; the handler answers 200, 404 on null, or 500.
FindByIdAndDelete(c, rejection) ==
    /\ c.call = "findByIdAndDelete"
    /\ Resolve(c)
    /\ IF rejection # "none"
       THEN /\ res' = Caught(c.req, rejection, "Error deleting event")
            /\ UNCHANGED store
       ELSE IF NoDeletedEvent({i \in DOMAIN store : store[i]._id = c.id})
       THEN /\ res' = Reply(c.req, 404, Message("Event not found"))
            /\ UNCHANGED store
       ELSE /\ store' = [i \in DOMAIN store \ {c.id} |-> store[i]]
            /\ res' = Reply(c.req, 200, Message("Event deleted successfully"))
    /\ UNCHANGED <<nextId, created, won>>

Next ==
    \/ \E b \in PostBodies : PostEvents(b)
    \/ \E c \in BagToSet(pending), r \in Rejections : Save(c, r)
    \/ \E q \in Queries : GetEvents(q)
    \/ \E c \in BagToSet(pending), r \in Rejections : FindSettles(c, r)
    \/ \E id \in Ids, b \in Patches : PutEvent(id, b)
    \/ \E b \in BadPatches : PutEvent(1, b)
    \/ \E c \in BagToSet(pending), r \in Rejections : FindOneAndUpdate(c, r)
    \/ \E id \in Ids : DeleteEvent(id)
    \/ \E c \in BagToSet(pending), r \in Rejections : FindByIdAndDelete(c, r)

Spec == Init /\ [][Next]_vars

-----------------------------------------------------------------------------
\* Vocabulary of the properties.  `res` is the response of the latest step,
\* so a state predicate on res and store speaks of the moment a response is
\* sent, and an action formula on res' and store of the step that sends it.

Answered(r, method, status) == r.req.method = method /\ r.status = status

\* The datastore call of the request rejected for want of a connection.
Unreachable(r) == r.status = 500 /\ r.logged = "MongoNetworkError"

Conflict == Message("Event has been updated by another user. Please refresh.")

\* Some stored event has this id and this version.
Current(id, v) == \E i \in DOMAIN store : store[i]._id = id /\ store[i].__v = v

\* The stored events whose fields equal every value the query supplies.
Satisfying(q) ==
    {d \in Range(store) :
        /\ Has(q, "location") => d.location = q.location
        /\ Has(q, "date") => d.date = Instant(q.date)
        /\ Has(q, "status") => d.status = q.status}

Shown(docs) == {Without(d, "__v") : d \in docs}

\* C1: among the PUT requests that carry the same expected version for the
\* same event, at most one is answered 200: a PUT answered 200 is the first
\* answered 200 for its <<id, version>>.
NoLostUpdate ==
    [][LET r == res'
       IN  Answered(r, "PUT", 200) => <<r.req.id, r.req.body.__v>> \notin won]_vars

\* C2: a PUT answered 200 leaves the stored version of its event one above
\* the version the request carried (the version stored before it).
VersionIncrements ==
    Answered(res, "PUT", 200)
        => /\ res.req.id \in DOMAIN store
           /\ store[res.req.id].__v = res.req.body.__v + 1

CreateFresh ==
    [][LET r == res'
       IN  (/\ r.req.method = "POST"
            /\ eventValidationSchema(r.req.body) = <<>>
            /\ ~Unreachable(r))
           => /\ r.status = 201
              /\ r.body.__v = 0
              /\ r.body._id \notin created
              /\ r.body._id \in DOMAIN store'
              /\ store'[r.body._id] = r.body]_vars

CreateFreshWitness ==
    /\ Answered(res, "POST", 201)
    /\ Cardinality(created) >= 2
    /\ created \ DOMAIN store # {}

ListAll ==
    (/\ res.req.method = "GET"
     /\ DOMAIN res.req.query = {}
     /\ ~Unreachable(res))
    => /\ res.status = 200
       /\ res.body = Shown(Range(store))

\* C7: a POST whose body lacks the title, its other required fields valid,
\* is answered 400 "Validation error" with "Title is required" among the
\* details.
MissingTitleMessage ==
    (/\ res.req.method = "POST"
     /\ ~Has(res.req.body, "title")
     /\ LocationErrors(res.req.body) \o DateErrors(res.req.body) = <<>>)
    => /\ res.status = 400
       /\ res.body.message = "Validation error"
       /\ \E i \in DOMAIN res.body.details : res.body.details[i] = "Title is required"

\* C8: a PUT whose body holds only a title and a numeric __v, for an id and
\* version some stored event has, is answered 200.
TitleOnlyUpdate ==
    (/\ res.req.method = "PUT"
     /\ DOMAIN res.req.body = {"title", "__v"}
     /\ ~Unreachable(res)
     /\ Current(res.req.id, res.req.body.__v))
    => res.status = 200

\* Values a stored event can hold: any non-empty location, any date the
\* create schema accepts, any of the three statuses.
Storable(q) ==
    /\ Has(q, "location") => q.location # ""
    /\ Has(q, "date") => JoiDateOk(q.date)
    /\ Has(q, "status") => q.status \in Statuses

Accepted(q) ==
    /\ Has(q, "location") => Len(q.location) >= 3 /\ Len(q.location) <= 50
    /\ Has(q, "date") => q.date \in IsoDates
    /\ Has(q, "status") => q.status \in Statuses

====
